---- MODULE Spec2Model ----
(***************************************************************************)
(* A model of the DailyBoxOffice scrapers:                                 *)
(*   bmsdaily7.py            sequential fetch with hard timeout, retry     *)
(*                           rounds, per-thread identity, snapshot merge   *)
(*   bmsdaily9.py            bounded-concurrency fetch, parse, dedupe,     *)
(*                           summary                                       *)
(*   combine_dailyshards.py  normalize, dedupe, final summary              *)
(*                                                                         *)
(* A show record is a function from field names to values (a Python dict). *)
(* A Python dict that is iterated is a record [keys, val]: keys is the     *)
(* insertion order, val the mapping.                                       *)
(***************************************************************************)
EXTENDS Integers, Sequences, FiniteSets, TLC

VARIABLES
    \* ---- the merge / dedupe functions applied to drawn inputs
    m_old,        \* old_rows: the prior snapshot given to the merge
    m_new,        \* all_rows: the new records given to the merge
    m_out,        \* detailed: the result of the last merge
    m_first,      \* the result of the first merge (kept to compare)
    m_ded9,       \* bmsdaily9.dedupe(all_rows)
    m_dedc,       \* combine_dailyshards.dedupe(all_rows): <<out, dupes>>
    m_dd,         \* whether the two dedupes have run
    m_pc          \* "start" | "merged" | "again"

VARIABLES
    \* ---- shared by the two scrapers: what a run leaves on disk
    detailed_file, \* DETAILED_FILE: the persisted snapshot (a list of records)
    run            \* number of the run in progress

VARIABLES
    \* ---- bmsdaily7.py: the coordinator (__main__)
    b_pc,         \* "first" | "retry" | "report" | "merge" | "done"
    b_i,          \* position in the list being walked (venues or pending)
    failed_venues,
    pending,
    next_pending,
    retry_round,
    all_rows,
    b_reported,   \* the count logged as permanent failures (-1: not logged yet)
    \* ---- bmsdaily7.py: one call of fetch_api_raw through hard_timeout
    b_call,       \* wrapper: "idle" | "waiting" (future.result) | "shutdown" (executor exit)
    b_worker,     \* executor thread: "none" | "running" | "finished"
    b_result,     \* what the executor thread's call ended with
    b_tls,        \* thread_local.identity of the live threads (0: no attribute)
    b_nident,     \* identities created so far in this run
    \* ---- history of the run
    b_attempts,   \* venue -> calls of fetch_api_raw made for it
    b_fails,      \* venue -> calls that ended in the except branch
    b_prevIdent,  \* identity the previous fetch used (0: none)
    b_curIdent,   \* identity the latest fetch used (0: none)
    b_lastFailed  \* whether the latest handled fetch ended in the except branch

VARIABLES
    \* ---- bmsdaily9.py: fetch_all and main
    d_pc,         \* "fetching" | "fetched" | "done"
    d_started,    \* tasks of gather that have run their first step
    d_task,       \* venue -> "new" | "waiting" | "woken" | "inflight" | "done"
    d_sem,        \* the semaphore's value
    d_waiters,    \* the semaphore's waiters, first in first out
    d_results,    \* venue -> what its bound(v) returned (gather's list)
    d_out,        \* the list fetch_all returns
    \* ---- history of the run
    d_resp,       \* venue -> the response its fetch got
    d_attempts,   \* venue -> calls of fetch_one made for it
    d_waited      \* whether a task found the semaphore locked

mergeVars == <<m_old, m_new, m_out, m_first, m_ded9, m_dedc, m_dd, m_pc>>

diskVars == <<detailed_file, run>>

bmsCoordVars == <<b_pc, b_i, failed_venues, pending, next_pending, retry_round,
                  all_rows, b_reported>>

bmsCallVars == <<b_call, b_worker, b_result, b_tls, b_nident>>

bmsHistVars == <<b_attempts, b_fails, b_prevIdent, b_curIdent, b_lastFailed>>

bmsVars == <<bmsCoordVars, bmsCallVars, bmsHistVars>>

VARIABLES
    \* ---- the aggregations applied to drawn record lists
    a_rows,       \* the flat record list given to the aggregation
    a_sum9,       \* bmsdaily9: build_summary(dedupe(rows))
    a_final,      \* combine_dailyshards: final_rows (normalized, deduped, sorted)
    a_sumc,       \* combine_dailyshards: final_summary
    a_pc          \* set of aggregations that have run: "s9", "combine"

aggVars == <<a_rows, a_sum9, a_final, a_sumc, a_pc>>

VARIABLES
    \* ---- the normalizers applied to one venue's drawn payload
    n_src,        \* which scraper the payload is given to
    n_data,       \* raw: what fetch_api_raw returned (bmsdaily7)
    n_res,        \* res["data"]: the pageData sessions of one result (bmsdaily9)
    n_all_rows,   \* all_rows after the try body of the venue (bmsdaily7)
    n_failed,     \* failed_venues after the try body of the venue (bmsdaily7)
    n_detailed,   \* what parse returned (bmsdaily9)
    n_pc          \* "idle", "drawn", "done"

normVars == <<n_src, n_data, n_res, n_all_rows, n_failed, n_detailed, n_pc>>

distTaskVars == <<d_pc, d_started, d_task, d_sem, d_waiters, d_results, d_out>>

distHistVars == <<d_resp, d_attempts, d_waited>>

distVars == <<distTaskVars, distHistVars>>

vars == <<mergeVars, diskVars, bmsVars, distVars, aggVars, normVars>>

\* What the actions of one program leave alone.
notMerge == <<diskVars, bmsVars, distVars, aggVars, normVars>>

notBms == <<mergeVars, distVars, aggVars, normVars>>

notDist == <<mergeVars, bmsVars, aggVars, normVars>>

notAgg == <<mergeVars, diskVars, bmsVars, distVars, normVars>>

notNorm == <<mergeVars, diskVars, bmsVars, distVars, aggVars>>

----------------------------------------------------------------------------
\* Bounds of the model
MaxOld == 2        \* longest prior snapshot drawn
MaxNew == 2        \* longest list of new records drawn
NumVenues == 2     \* venues in the venue list of a run
MaxRuns == 2       \* runs of a scraper on one date

MaxRows == 2       \* longest record list given to an aggregation
MaxShows == 2      \* most shows in one venue's payload
MaxTiers == 2      \* most price tiers of one show
NumDistVenues == 3 \* venues in DIST_VENUES
\* CONCURRENCY is 20 in bmsdaily9.py (line 19).  The model runs the same
\* semaphore with fewer permits than venues, so that it is exhausted.
CONCURRENCY == 2

\* Program constants
MAX_RETRIES == 5

----------------------------------------------------------------------------
\* Generic helpers

Range(s) == {s[i] : i \in 1..Len(s)}

SeqsUpTo(S, n) == UNION {[1..k -> S] : k \in 0..n}

\* A Python dict: insertion-ordered keys and the mapping.
EmptyDict == [keys |-> <<>>, val |-> <<>>]

DictHas(d, k) == k \in Range(d.keys)

DictGet(d, k) == d.val[CHOOSE i \in 1..Len(d.keys) : d.keys[i] = k]

\* d[k] = v: a new key goes last, an existing key keeps its place.
DictSet(d, k, v) ==
    IF DictHas(d, k)
    THEN [d EXCEPT !.val[CHOOSE i \in 1..Len(d.keys) : d.keys[i] = k] = v]
    ELSE [keys |-> Append(d.keys, k), val |-> Append(d.val, v)]

DictValues(d) == d.val

----------------------------------------------------------------------------
\* Show records of the merge universe.  venue/time/session_id/audi are the
\* identity fields; sold is a field every record has; chain is a field that
\* some records have and others lack.

MergeVenues == {"v1", "v2"}
SoldValues == {1, 2}

MergeRecords ==
    {[venue |-> v, time |-> "t1", session_id |-> "s1", audi |-> "a1", sold |-> s]
        : v \in MergeVenues, s \in SoldValues}
    \cup
    {[venue |-> v, time |-> "t1", session_id |-> "s1", audi |-> "a1", sold |-> s,
      chain |-> "c1"] : v \in MergeVenues, s \in SoldValues}

\* show_key(r)
show_key(r) == <<r.venue, r.time, r.session_id, r.audi>>

\* dict.update: every field of r overwrites or is added, the other fields of
\* old stay.
DictUpdateReplaces(old, r) == r

DictUpdate(old, r) ==
    [f \in (DOMAIN old) \cup (DOMAIN r) |-> IF f \in DOMAIN r THEN r[f] ELSE old[f]]

\* old_map = {show_key(r): r for r in old_rows}
RECURSIVE BuildOldMap(_, _)
BuildOldMap(rows, d) ==
    IF rows = <<>> THEN d
    ELSE BuildOldMap(Tail(rows), DictSet(d, show_key(Head(rows)), Head(rows)))

\* One iteration of `for r in all_rows`: st = [old_map, new_map].
MergeStep(st, r) ==
    LET key == show_key(r) IN
    IF DictHas(st.old_map, key)
    THEN LET upd == DictUpdate(DictGet(st.old_map, key), r) IN
         [old_map |-> DictSet(st.old_map, key, upd),
          new_map |-> DictSet(st.new_map, key, upd)]
    ELSE [old_map |-> st.old_map, new_map |-> DictSet(st.new_map, key, r)]

RECURSIVE MergeLoop(_, _)
MergeLoop(st, rows) ==
    IF rows = <<>> THEN st ELSE MergeLoop(MergeStep(st, Head(rows)), Tail(rows))

\* for k, v in old_map.items(): if k not in new_map: new_map[k] = v
CarryOldDropped(old_map, i, new_map) == new_map

RECURSIVE CarryOld(_, _, _)
CarryOld(old_map, i, new_map) ==
    IF i > Len(old_map.keys) THEN new_map
    ELSE CarryOld(old_map, i + 1,
                  IF DictHas(new_map, old_map.keys[i]) THEN new_map
                  ELSE DictSet(new_map, old_map.keys[i], old_map.val[i]))

\* The MERGE OLD DATA block: detailed = list(new_map.values())
Merge(old_rows, new_rows) ==
    LET st == MergeLoop([old_map |-> BuildOldMap(old_rows, EmptyDict),
                         new_map |-> EmptyDict], new_rows)
    IN DictValues(CarryOld(st.old_map, 1, st.new_map))

\* bmsdaily9.dedupe
Dedupe9SeenIgnored(rows, seen, out) == out \o rows

RECURSIVE Dedupe9Loop(_, _, _)
Dedupe9Loop(rows, seen, out) ==
    IF rows = <<>> THEN out
    ELSE LET r == Head(rows)
             key == <<r.venue, r.time, r.session_id, r.audi>>
         IN IF key \in seen THEN Dedupe9Loop(Tail(rows), seen, out)
            ELSE Dedupe9Loop(Tail(rows), seen \cup {key}, Append(out, r))

dedupe9(rows) == Dedupe9Loop(rows, {}, <<>>)

\* combine_dailyshards.dedupe: (out, dupes)
RECURSIVE DedupeCombineLoop(_, _, _, _)
DedupeCombineLoop(rows, seen, out, dupes) ==
    IF rows = <<>> THEN <<out, dupes>>
    ELSE LET r == Head(rows)
             key == <<r.venue, r.time, r.session_id, r.audi>>
         IN IF key \in seen THEN DedupeCombineLoop(Tail(rows), seen, out, dupes + 1)
            ELSE DedupeCombineLoop(Tail(rows), seen \cup {key}, Append(out, r), dupes)

dedupe(rows) == DedupeCombineLoop(rows, {}, <<>>, 0)

----------------------------------------------------------------------------
\* Values of the variables of a program that a specification does not run.

MergeIdle ==
    /\ m_old = <<>> /\ m_new = <<>> /\ m_out = <<>> /\ m_first = <<>>
    /\ m_ded9 = <<>> /\ m_dedc = <<<<>>, 0>> /\ m_dd = FALSE /\ m_pc = "idle"

DiskIdle == detailed_file = <<>> /\ run = 0

BmsIdle ==
    /\ b_pc = "idle" /\ b_i = 0 /\ failed_venues = <<>> /\ pending = <<>>
    /\ next_pending = <<>> /\ retry_round = 0 /\ all_rows = <<>> /\ b_reported = -1
    /\ b_call = "idle" /\ b_worker = "none" /\ b_result = <<>>
    /\ b_tls = <<>> /\ b_nident = 0
    /\ b_attempts = <<>> /\ b_fails = <<>> /\ b_prevIdent = 0 /\ b_curIdent = 0
    /\ b_lastFailed = FALSE

NormIdle ==
    /\ n_src = "none"
    /\ n_data = <<>>
    /\ n_res = <<>>
    /\ n_all_rows = <<>>
    /\ n_failed = <<>>
    /\ n_detailed = <<>>
    /\ n_pc = "idle"

AggIdle ==
    /\ a_rows = <<>> /\ a_sum9 = <<>> /\ a_final = <<>> /\ a_sumc = <<>> /\ a_pc = {"idle"}

DistIdle ==
    /\ d_pc = "idle" /\ d_started = 0 /\ d_task = <<>> /\ d_sem = 0
    /\ d_waiters = <<>> /\ d_results = <<>> /\ d_out = <<>>
    /\ d_resp = <<>> /\ d_attempts = <<>> /\ d_waited = FALSE

----------------------------------------------------------------------------
\* The merge specification: draw a snapshot and a list of new records, merge,
\* then merge the same new records into the result; dedupe the new records.

MergeInit ==
    /\ m_old \in SeqsUpTo(MergeRecords, MaxOld)
    /\ m_new \in SeqsUpTo(MergeRecords, MaxNew)
    /\ m_out = <<>>
    /\ m_first = <<>>
    /\ m_ded9 = <<>>
    /\ m_dedc = <<<<>>, 0>>
    /\ m_dd = FALSE
    /\ m_pc = "start"
    /\ DiskIdle
    /\ BmsIdle
    /\ DistIdle
    /\ AggIdle
    /\ NormIdle

MergeOnce ==
    /\ m_pc = "start"
    /\ m_out' = Merge(m_old, m_new)
    /\ m_first' = Merge(m_old, m_new)
    /\ m_pc' = "merged"
    /\ UNCHANGED <<m_old, m_new, m_ded9, m_dedc, m_dd>>
    /\ UNCHANGED notMerge

MergeAgain ==
    /\ m_pc = "merged"
    /\ m_out' = Merge(m_out, m_new)
    /\ m_pc' = "again"
    /\ UNCHANGED <<m_old, m_new, m_first, m_ded9, m_dedc, m_dd>>
    /\ UNCHANGED notMerge

DedupeRows ==
    /\ ~m_dd
    /\ m_ded9' = dedupe9(m_old \o m_new)
    /\ m_dedc' = dedupe(m_old \o m_new)
    /\ m_dd' = TRUE
    /\ UNCHANGED <<m_old, m_new, m_out, m_first, m_pc>>
    /\ UNCHANGED notMerge

MergeNext == MergeOnce \/ MergeAgain \/ DedupeRows

SpecMerge == MergeInit /\ [][MergeNext]_vars

----------------------------------------------------------------------------
\* bmsdaily7.py: strings are sequences of one-character strings.

Whitespace == {" "}

RECURSIVE LStrip(_)
LStrip(s) == IF s # <<>> /\ Head(s) \in Whitespace THEN LStrip(Tail(s)) ELSE s

RECURSIVE RStrip(_)
RStrip(s) ==
    IF s # <<>> /\ s[Len(s)] \in Whitespace THEN RStrip(SubSeq(s, 1, Len(s) - 1)) ELSE s

\* str.strip()
Strip(s) == RStrip(LStrip(s))

\* str.startswith(c) for a one-character c
StartsWith(s, c) == s # <<>> /\ s[1] = c

\* The venue list: venue codes in file order.
Venues == [i \in 1..NumVenues |-> i]

VenueSet == 1..NumVenues

\* The rows a venue's payload gives after parse_payload and the cutoff filter:
\* the venue's show, with the sold figure of this run, or nothing.
ShowOf(v, s) ==
    [venue |-> v, time |-> "t1", session_id |-> "s1", audi |-> "a1", sold |-> s]

Payloads(v) == {<<>>, <<ShowOf(v, run)>>}

\* What the network gives for one GET: an exception of the transport, a body
\* that is no JSON object, or a JSON object (possibly after white space).
Responses(v) ==
    {[net |-> "error", text |-> <<>>, shows |-> <<>>]}
    \cup {[net |-> "ok", text |-> <<"<">>, shows |-> <<>>]}
    \cup {[net |-> "ok", text |-> t, shows |-> p] :
            t \in {<<"{">>, <<" ", "{">>}, p \in Payloads(v)}

\* get_identity() run in thread t: n identities exist so far.
get_identity(tls, t, n) ==
    IF tls[t] = 0
    THEN [tls |-> [tls EXCEPT ![t] = n + 1], n |-> n + 1, ident |-> n + 1]
    ELSE [tls |-> tls, n |-> n, ident |-> tls[t]]

\* reset_identity() run in thread t
reset_identity(tls, t) == [tls EXCEPT ![t] = 0]

\* The executor's only thread ends with the executor (the with block's exit):
\* its thread-local attributes go with it.
ThreadEnds(tls) == [tls EXCEPT !.worker = 0]

\* The body of fetch_api_raw after get_identity: what the call ends with.
FetchBody(resp) ==
    IF resp.net = "error"
    THEN [kind |-> "raise", msg |-> "network", rows |-> <<>>]
    ELSE IF ~StartsWith(Strip(resp.text), "{")
         THEN [kind |-> "raise", msg |-> "Blocked / HTML", rows |-> <<>>]
         ELSE [kind |-> "return", msg |-> "", rows |-> resp.shows]

\* while pending and retry_round <= MAX_RETRIES
RetryContinuesOneShort(p, rr) == p # <<>> /\ rr < MAX_RETRIES

RetryContinues(p, rr) == p # <<>> /\ rr <= MAX_RETRIES

\* Top of the while loop with pending p and retry_round rr: a round starts or
\* the loop is left for the report.
EnterRound(p, rr, np) ==
    IF RetryContinues(p, rr)
    THEN [pc |-> "retry", i |-> 1, pending |-> p, next_pending |-> <<>>, retry_round |-> rr]
    ELSE [pc |-> "report", i |-> 0, pending |-> p, next_pending |-> np, retry_round |-> rr]

\* (the same with the round's queue kept as it was)
AdvanceKeepsQueue(fv, np) ==
    IF b_pc = "first"
    THEN IF b_i < NumVenues
         THEN [pc |-> "first", i |-> b_i + 1, pending |-> pending,
               next_pending |-> np, retry_round |-> retry_round]
         ELSE EnterRound(fv, 1, np)
    ELSE IF b_i < Len(pending)
         THEN [pc |-> "retry", i |-> b_i + 1, pending |-> pending,
               next_pending |-> np, retry_round |-> retry_round]
         ELSE EnterRound(pending, retry_round + 1, np)

\* Where the coordinator stands after the try/except of one venue, with
\* failed_venues fv and next_pending np as the handler left them.
Advance(fv, np) ==
    IF b_pc = "first"
    THEN IF b_i < NumVenues
         THEN [pc |-> "first", i |-> b_i + 1, pending |-> pending,
               next_pending |-> np, retry_round |-> retry_round]
         ELSE EnterRound(fv, 1, np)
    ELSE IF b_i < Len(pending)
         THEN [pc |-> "retry", i |-> b_i + 1, pending |-> pending,
               next_pending |-> np, retry_round |-> retry_round]
         ELSE EnterRound(np, retry_round + 1, np)

CurrentVenue == IF b_pc = "first" THEN Venues[b_i] ELSE pending[b_i]

BmsStart ==
    /\ b_pc = "first" /\ b_i = 1 /\ failed_venues = <<>> /\ pending = <<>>
    /\ next_pending = <<>> /\ retry_round = 0 /\ all_rows = <<>> /\ b_reported = -1
    /\ b_call = "idle" /\ b_worker = "none" /\ b_result = <<>>
    /\ b_tls = [main |-> 0, worker |-> 0] /\ b_nident = 0
    /\ b_attempts = [v \in VenueSet |-> 0] /\ b_fails = [v \in VenueSet |-> 0]
    /\ b_prevIdent = 0 /\ b_curIdent = 0
    /\ b_lastFailed = FALSE

BmsInit ==
    /\ MergeIdle
    /\ DistIdle
    /\ AggIdle
    /\ NormIdle
    /\ detailed_file = <<>>
    /\ run = 1
    /\ BmsStart

\* The coordinator calls fetch_api_raw(vcode): the wrapper makes an executor
\* of one new thread, submits the call and blocks in future.result(timeout).
CallFetch ==
    /\ b_pc \in {"first", "retry"}
    /\ b_call = "idle"
    /\ b_call' = "waiting"
    /\ b_worker' = "running"
    /\ b_result' = <<>>
    /\ b_tls' = [b_tls EXCEPT !.worker = 0]
    /\ b_attempts' = [b_attempts EXCEPT ![CurrentVenue] = @ + 1]
    /\ UNCHANGED <<b_nident, b_fails, b_prevIdent, b_curIdent, b_lastFailed>>
    /\ UNCHANGED <<bmsCoordVars, diskVars, notBms>>

\* The executor thread runs the body of fetch_api_raw to its end.
WorkerFinish ==
    /\ b_worker = "running"
    /\ \E resp \in Responses(CurrentVenue) :
         LET g == get_identity(b_tls, "worker", b_nident) IN
         /\ b_tls' = g.tls
         /\ b_nident' = g.n
         /\ b_prevIdent' = b_curIdent
         /\ b_curIdent' = g.ident
         /\ b_result' = FetchBody(resp)
    /\ b_worker' = "finished"
    /\ UNCHANGED <<b_call, b_attempts, b_fails, b_lastFailed>>
    /\ UNCHANGED <<bmsCoordVars, diskVars, notBms>>

\* future.result(timeout=seconds) raises FutureTimeout while the call is still
\* running; the wrapper raises TimeoutError inside the with block, whose exit
\* is executor.shutdown(wait=True).
DeadlineFires ==
    /\ b_call = "waiting"
    /\ b_worker = "running"
    /\ b_call' = "shutdown"
    /\ UNCHANGED <<b_worker, b_result, b_tls, b_nident, bmsHistVars>>
    /\ UNCHANGED <<bmsCoordVars, diskVars, notBms>>

\* The try block's normal end for the venue: rows appended (lines 213-224,
\* 248-259), then the loop goes on.
HandleSuccess(rows) ==
    LET a == Advance(failed_venues, next_pending) IN
    /\ all_rows' = all_rows \o rows
    /\ b_pc' = a.pc /\ b_i' = a.i /\ pending' = a.pending
    /\ next_pending' = a.next_pending /\ retry_round' = a.retry_round
    /\ UNCHANGED <<failed_venues, b_reported>>
    /\ b_tls' = ThreadEnds(b_tls)
    /\ b_lastFailed' = FALSE
    /\ UNCHANGED b_fails

\* The except branch for the venue (lines 225-228, 260-263): the venue is
\* queued, reset_identity() runs in the coordinating thread.
HandleFailure ==
    LET fv == IF b_pc = "first" THEN Append(failed_venues, CurrentVenue) ELSE failed_venues
        np == IF b_pc = "retry" THEN Append(next_pending, CurrentVenue) ELSE next_pending
        a == Advance(fv, np)
    IN
    /\ failed_venues' = fv
    /\ b_pc' = a.pc /\ b_i' = a.i /\ pending' = a.pending
    /\ next_pending' = a.next_pending /\ retry_round' = a.retry_round
    /\ UNCHANGED <<all_rows, b_reported>>
    /\ b_tls' = reset_identity(ThreadEnds(b_tls), "main")
    /\ b_fails' = [b_fails EXCEPT ![CurrentVenue] = @ + 1]
    /\ b_lastFailed' = TRUE

\* future.result returns or re-raises what the call ended with before the
\* deadline; the executor's exit finds the thread finished.
WrapperReturn ==
    /\ b_call = "waiting"
    /\ b_worker = "finished"
    /\ IF b_result.kind = "return"
       THEN HandleSuccess(b_result.rows)
       ELSE HandleFailure
    /\ b_call' = "idle"
    /\ b_worker' = "none"
    /\ b_result' = <<>>
    /\ UNCHANGED <<b_nident, b_attempts, b_prevIdent, b_curIdent>>
    /\ UNCHANGED <<diskVars, notBms>>

\* The executor's exit returns once its thread has finished; TimeoutError
\* then reaches the coordinator and the call's own result is dropped.
WrapperRaiseTimeout ==
    /\ b_call = "shutdown"
    /\ b_worker = "finished"
    /\ HandleFailure
    /\ b_call' = "idle"
    /\ b_worker' = "none"
    /\ b_result' = <<>>
    /\ UNCHANGED <<b_nident, b_attempts, b_prevIdent, b_curIdent>>
    /\ UNCHANGED <<diskVars, notBms>>

\* if pending: log PERMANENT FAILURES ... len(pending)
ReportFailures ==
    /\ b_pc = "report"
    /\ b_reported' = Len(pending)
    /\ b_pc' = "merge"
    /\ UNCHANGED <<b_i, failed_venues, pending, next_pending, retry_round, all_rows>>
    /\ UNCHANGED <<bmsCallVars, bmsHistVars, diskVars, notBms>>

\* MERGE OLD DATA and SAVE: the file is read, merged with all_rows, written.
MergeAndSave ==
    /\ b_pc = "merge"
    /\ detailed_file' = Merge(detailed_file, all_rows)
    /\ b_pc' = "done"
    /\ UNCHANGED run
    /\ UNCHANGED <<b_i, failed_venues, pending, next_pending, retry_round, all_rows,
                   b_reported>>
    /\ UNCHANGED <<bmsCallVars, bmsHistVars, notBms>>

\* The script is started again on the same date: a new process.
BmsNextRun ==
    /\ b_pc = "done"
    /\ run < MaxRuns
    /\ run' = run + 1
    /\ b_pc' = "first" /\ b_i' = 1 /\ failed_venues' = <<>> /\ pending' = <<>>
    /\ next_pending' = <<>> /\ retry_round' = 0 /\ all_rows' = <<>> /\ b_reported' = -1
    /\ b_call' = "idle" /\ b_worker' = "none" /\ b_result' = <<>>
    /\ b_tls' = [main |-> 0, worker |-> 0] /\ b_nident' = 0
    /\ b_attempts' = [v \in VenueSet |-> 0] /\ b_fails' = [v \in VenueSet |-> 0]
    /\ b_prevIdent' = 0 /\ b_curIdent' = 0
    /\ b_lastFailed' = FALSE
    /\ UNCHANGED <<detailed_file, notBms>>

BmsNext ==
    \/ CallFetch
    \/ WorkerFinish
    \/ DeadlineFires
    \/ WrapperReturn
    \/ WrapperRaiseTimeout
    \/ ReportFailures
    \/ MergeAndSave
    \/ BmsNextRun

SpecBms == BmsInit /\ [][BmsNext]_vars

----------------------------------------------------------------------------
\* bmsdaily9.py: fetch_all runs one task per venue under a semaphore, main
\* parses what came back and writes the files.

DistVenueSet == 1..NumDistVenues

None == [none |-> TRUE]

\* What the worker URL gives for one GET.  "neterror" is an exception of the
\* transport, "status" a status other than 200, "blocked" a 200 whose body is
\* no JSON, "dateskip" a JSON without today's date in sessionDates, "ok" a
\* JSON with it; rows are the records parse builds from its sessions.
DistResponses(v) ==
    {[kind |-> k, rows |-> <<>>] : k \in {"neterror", "status", "blocked", "dateskip"}}
    \cup {[kind |-> "ok", rows |-> <<ShowOf(v, run)>>],
          [kind |-> "ok", rows |-> <<ShowOf(v, run), ShowOf(v, run)>>]}

\* fetch_one(session, venue): what it returns for a response.
fetch_one(v, resp) ==
    CASE resp.kind = "neterror" -> None      \* except Exception: return None
      [] resp.kind = "status"   -> None      \* resp.status != 200
      [] resp.kind = "blocked"  -> None      \* resp.json() raises, except: None
      [] resp.kind = "dateskip" -> None      \* DATE_DISTRICT not in session_dates
      [] OTHER                  -> [venue |-> v, data |-> resp.rows]

\* asyncio.Semaphore.locked()
SemNeverLocked(value, waiters) == FALSE

SemLocked(value, waiters) == value = 0 \/ waiters # <<>>

\* for r in results: if r: out.append(r)
RECURSIVE CollectOut(_, _)
CollectOut(results, i) ==
    IF i > Len(results) THEN <<>>
    ELSE IF results[i] = None THEN CollectOut(results, i + 1)
         ELSE <<results[i]>> \o CollectOut(results, i + 1)

\* parse(results): the rows of every result in turn, then dedupe.
RECURSIVE ParseRows(_)
ParseRows(results) ==
    IF results = <<>> THEN <<>> ELSE Head(results).data \o ParseRows(Tail(results))

parse(results) == dedupe9(ParseRows(results))

DistInit ==
    /\ MergeIdle
    /\ BmsIdle
    /\ AggIdle
    /\ NormIdle
    /\ detailed_file = <<>>
    /\ run = 1
    /\ d_pc = "fetching" /\ d_started = 0
    /\ d_task = [v \in DistVenueSet |-> "new"]
    /\ d_sem = CONCURRENCY /\ d_waiters = <<>>
    /\ d_results = [v \in DistVenueSet |-> None] /\ d_out = <<>>
    /\ d_resp = [v \in DistVenueSet |-> [kind |-> "none", rows |-> <<>>]]
    /\ d_attempts = [v \in DistVenueSet |-> 0]
    /\ d_waited = FALSE

\* The next task of gather runs bound(v) to its first suspension: it takes a
\* permit and enters fetch_one, or joins the semaphore's waiters.
StartTask ==
    /\ d_pc = "fetching"
    /\ d_started < NumDistVenues
    /\ LET v == d_started + 1 IN
       IF SemLocked(d_sem, d_waiters)
       THEN /\ d_task' = [d_task EXCEPT ![v] = "waiting"]
            /\ d_waiters' = Append(d_waiters, v)
            /\ d_waited' = TRUE
            /\ UNCHANGED <<d_sem, d_attempts>>
       ELSE /\ d_task' = [d_task EXCEPT ![v] = "inflight"]
            /\ d_sem' = d_sem - 1
            /\ d_attempts' = [d_attempts EXCEPT ![v] = @ + 1]
            /\ UNCHANGED <<d_waiters, d_waited>>
    /\ d_started' = d_started + 1
    /\ UNCHANGED <<d_pc, d_results, d_out, d_resp>>
    /\ UNCHANGED <<diskVars, notDist>>

\* A woken waiter resumes after acquire() and enters fetch_one.
ResumeTask(v) ==
    /\ d_task[v] = "woken"
    /\ d_task' = [d_task EXCEPT ![v] = "inflight"]
    /\ d_attempts' = [d_attempts EXCEPT ![v] = @ + 1]
    /\ UNCHANGED <<d_pc, d_started, d_sem, d_waiters, d_results, d_out, d_resp, d_waited>>
    /\ UNCHANGED <<diskVars, notDist>>

\* The response of an in-flight fetch arrives: fetch_one returns, the task
\* leaves `async with sem` (release hands the permit to the first waiter).
CompleteTask(v) ==
    /\ d_task[v] = "inflight"
    /\ \E resp \in DistResponses(v) :
         /\ d_resp' = [d_resp EXCEPT ![v] = resp]
         /\ d_results' = [d_results EXCEPT ![v] = fetch_one(v, resp)]
    /\ IF d_waiters # <<>>
       THEN /\ d_task' = [d_task EXCEPT ![v] = "done", ![Head(d_waiters)] = "woken"]
            /\ d_waiters' = Tail(d_waiters)
            /\ d_sem' = d_sem
       ELSE /\ d_task' = [d_task EXCEPT ![v] = "done"]
            /\ d_sem' = d_sem + 1
            /\ d_waiters' = d_waiters
    /\ UNCHANGED <<d_pc, d_started, d_out, d_attempts, d_waited>>
    /\ UNCHANGED <<diskVars, notDist>>

\* gather has every result: fetch_all keeps the results that are not None.
FetchAllReturn ==
    /\ d_pc = "fetching"
    /\ \A v \in DistVenueSet : d_task[v] = "done"
    /\ d_out' = CollectOut(d_results, 1)
    /\ d_pc' = "fetched"
    /\ UNCHANGED <<d_started, d_task, d_sem, d_waiters, d_results, distHistVars>>
    /\ UNCHANGED <<diskVars, notDist>>

\* main after fetch_all: parse, build_summary, write DETAILED_FILE.
DistParseAndSave ==
    /\ d_pc = "fetched"
    /\ detailed_file' = parse(d_out)
    /\ d_pc' = "done"
    /\ UNCHANGED <<run, d_started, d_task, d_sem, d_waiters, d_results, d_out, distHistVars>>
    /\ UNCHANGED notDist

\* The script is started again on the same date: a new process.
DistNextRun ==
    /\ d_pc = "done"
    /\ run < MaxRuns
    /\ run' = run + 1
    /\ d_pc' = "fetching" /\ d_started' = 0
    /\ d_task' = [v \in DistVenueSet |-> "new"]
    /\ d_sem' = CONCURRENCY /\ d_waiters' = <<>>
    /\ d_results' = [v \in DistVenueSet |-> None] /\ d_out' = <<>>
    /\ d_resp' = [v \in DistVenueSet |-> [kind |-> "none", rows |-> <<>>]]
    /\ d_attempts' = [v \in DistVenueSet |-> 0]
    /\ d_waited' = FALSE
    /\ UNCHANGED <<detailed_file, notDist>>

DistNext ==
    \/ StartTask
    \/ \E v \in DistVenueSet : ResumeTask(v)
    \/ \E v \in DistVenueSet : CompleteTask(v)
    \/ FetchAllReturn
    \/ DistParseAndSave
    \/ DistNextRun

SpecDistrict == DistInit /\ [][DistNext]_vars

----------------------------------------------------------------------------
\* The aggregations: bmsdaily9.build_summary and the combiner's normalize,
\* dedupe, sort and final summary.  Text fields are sequences of characters.

LowerCase == <<"a", "b", "c", "d", "e", "f", "g", "h", "i", "j", "k", "l", "m",
               "n", "o", "p", "q", "r", "s", "t", "u", "v", "w", "x", "y", "z">>

UpperCase == <<"A", "B", "C", "D", "E", "F", "G", "H", "I", "J", "K", "L", "M",
               "N", "O", "P", "Q", "R", "S", "T", "U", "V", "W", "X", "Y", "Z">>

\* The characters of the model in code point order.
AsciiChars == <<" ", "1", "2">> \o UpperCase \o LowerCase

CodePoint(c) == CHOOSE i \in 1..Len(AsciiChars) : AsciiChars[i] = c

IsUpper(c) == c \in Range(UpperCase)

IsLower(c) == c \in Range(LowerCase)

ToLower(c) ==
    IF IsUpper(c) THEN LowerCase[CHOOSE i \in 1..Len(UpperCase) : UpperCase[i] = c] ELSE c

ToUpper(c) ==
    IF IsLower(c) THEN UpperCase[CHOOSE i \in 1..Len(LowerCase) : LowerCase[i] = c] ELSE c

\* str.lower(), str.upper()
Lower(s) == [i \in 1..Len(s) |-> ToLower(s[i])]

Upper(s) == [i \in 1..Len(s) |-> ToUpper(s[i])]

\* str.title(): a cased character is upper-cased after an uncased one (or at
\* the start) and lower-cased after a cased one.
Title(s) ==
    [i \in 1..Len(s) |->
        IF i > 1 /\ (IsUpper(s[i - 1]) \/ IsLower(s[i - 1]))
        THEN ToLower(s[i]) ELSE ToUpper(s[i])]

\* a < b for str
RECURSIVE StrLess(_, _)
StrLess(a, b) ==
    IF b = <<>> THEN FALSE
    ELSE IF a = <<>> THEN TRUE
    ELSE IF Head(a) = Head(b) THEN StrLess(Tail(a), Tail(b))
    ELSE CodePoint(Head(a)) < CodePoint(Head(b))

\* a < b for tuples of str
RECURSIVE TupleLess(_, _)
TupleLess(a, b) ==
    IF b = <<>> THEN FALSE
    ELSE IF a = <<>> THEN TRUE
    ELSE IF Head(a) = Head(b) THEN TupleLess(Tail(a), Tail(b))
    ELSE StrLess(Head(a), Head(b))

\* x or d
OrDefault(x, d) == IF x = <<>> THEN d ELSE x

Unknown == <<"U", "n", "k", "n", "o", "w", "n">>

UNKNOWN == <<"U", "N", "K", "N", "O", "W", "N">>

\* round(n / d, 0) for d > 0, ties to even
RoundHalfEven(n, d) ==
    LET q == n \div d
        r == n % d
    IN IF 2 * r > d THEN q + 1
       ELSE IF 2 * r < d THEN q
       ELSE q + (q % 2)

\* calc_occupancy(sold, total), in hundredths of a percent
calc_occupancy(sold, total) ==
    IF total # 0 THEN RoundHalfEven(sold * 10000, total) ELSE 0

\* if occ >= 98 ... elif occ >= 50, for occ = calc_occupancy(sold, total)
StatusRounded(sold, total) ==
    LET occ == calc_occupancy(sold, total) IN
    IF occ >= 9800 THEN "housefull" ELSE IF occ >= 5000 THEN "fastfilling" ELSE "none"

\* sold / total * 100 >= pct, with 0 for total = 0 (total is never negative here)
OccAtLeast(sold, total, pct) ==
    IF total # 0 THEN sold * 100 >= pct * total ELSE 0 >= pct

\* if occ >= 98 ... elif occ >= 50, for occ = (sold / total * 100) if total else 0
StatusExact(sold, total) ==
    IF OccAtLeast(sold, total, 98) THEN "housefull"
    ELSE IF OccAtLeast(sold, total, 50) THEN "fastfilling" ELSE "none"

NewMovie ==
    [shows |-> 0, gross |-> 0, sold |-> 0, totalSeats |-> 0, venues |-> {},
     cities |-> {}, fastfilling |-> 0, housefull |-> 0,
     City_details |-> EmptyDict, Language_details |-> EmptyDict,
     Format_details |-> EmptyDict]

NewCity(city, state) ==
    [city |-> city, state |-> state, venues |-> {}, shows |-> 0, gross |-> 0,
     sold |-> 0, totalSeats |-> 0, fastfilling |-> 0, housefull |-> 0]

NewLanguage(lang) ==
    [language |-> lang, venues |-> {}, shows |-> 0, gross |-> 0,
     sold |-> 0, totalSeats |-> 0, fastfilling |-> 0, housefull |-> 0]

NewFormat(dim) ==
    [dimension |-> dim, venues |-> {}, shows |-> 0, gross |-> 0,
     sold |-> 0, totalSeats |-> 0, fastfilling |-> 0, housefull |-> 0]

\* One show added to a bucket d of any level.
BucketAdd(d, r, status) ==
    [d EXCEPT !.venues = @ \cup {r.venue},
              !.shows = @ + 1,
              !.gross = @ + r.gross,
              !.sold = @ + r.sold,
              !.totalSeats = @ + r.totalSeats,
              !.housefull = IF status = "housefull" THEN @ + 1 ELSE @,
              !.fastfilling = IF status = "fastfilling" THEN @ + 1 ELSE @]

\* The entry of key k of the dict d, created as fresh when absent.
GetOrNew(d, k, fresh) == IF DictHas(d, k) THEN DictGet(d, k) ELSE fresh

\* The body of `for r in ...` of a summary: ck is the key of the city
\* bucket, cityOfSet what goes into m["cities"], status the show's class.
AddRow(summary, r, ck, cityOfSet, status) ==
    LET m0 == GetOrNew(summary, r.movie, NewMovie)
        m1 == [BucketAdd(m0, r, status) EXCEPT !.cities = @ \cup {cityOfSet}]
        d == BucketAdd(GetOrNew(m1.City_details, ck, NewCity(r.city, r.state)), r, status)
        L == BucketAdd(GetOrNew(m1.Language_details, r.language, NewLanguage(r.language)),
                       r, status)
        F == BucketAdd(GetOrNew(m1.Format_details, r.dimension, NewFormat(r.dimension)),
                       r, status)
    IN DictSet(summary, r.movie,
               [m1 EXCEPT !.City_details = DictSet(@, ck, d),
                          !.Language_details = DictSet(@, r.language, L),
                          !.Format_details = DictSet(@, r.dimension, F)])

\* A bucket as written out: the venue set replaced by its size, occupancy
\* recomputed from the bucket's sums.
FinalBucket(d) ==
    [f \in (DOMAIN d) \cup {"occupancy"} |->
        IF f = "venues" THEN Cardinality(d.venues)
        ELSE IF f = "occupancy" THEN calc_occupancy(d.sold, d.totalSeats)
        ELSE d[f]]

FinalBuckets(dict) == [i \in 1..Len(dict.val) |-> FinalBucket(dict.val[i])]

\* (the same with the city count taken from the city buckets)
FinalMovieCountsBuckets(m) ==
    [shows |-> m.shows, gross |-> m.gross, sold |-> m.sold,
     totalSeats |-> m.totalSeats, venues |-> Cardinality(m.venues),
     cities |-> Len(m.City_details.keys), fastfilling |-> m.fastfilling,
     housefull |-> m.housefull,
     occupancy |-> calc_occupancy(m.sold, m.totalSeats),
     City_details |-> FinalBuckets(m.City_details),
     Language_details |-> FinalBuckets(m.Language_details),
     Format_details |-> FinalBuckets(m.Format_details)]

FinalMovie(m) ==
    [shows |-> m.shows, gross |-> m.gross, sold |-> m.sold,
     totalSeats |-> m.totalSeats, venues |-> Cardinality(m.venues),
     cities |-> Cardinality(m.cities), fastfilling |-> m.fastfilling,
     housefull |-> m.housefull,
     occupancy |-> calc_occupancy(m.sold, m.totalSeats),
     City_details |-> FinalBuckets(m.City_details),
     Language_details |-> FinalBuckets(m.Language_details),
     Format_details |-> FinalBuckets(m.Format_details)]

\* The summary as written out: movie -> FinalMovie.
Finalize(summary) ==
    [keys |-> summary.keys,
     val |-> [i \in 1..Len(summary.val) |-> FinalMovie(summary.val[i])]]

\* bmsdaily9.build_summary: the city bucket is keyed by the row's own city
\* and state strings.
CityKey9(r) == <<r.city, r.state>>

RECURSIVE Summary9Loop(_, _)
Summary9Loop(summary, rows) ==
    IF rows = <<>> THEN summary
    ELSE LET r == Head(rows) IN
         Summary9Loop(AddRow(summary, r, CityKey9(r), r.city,
                             StatusRounded(r.sold, r.totalSeats)),
                      Tail(rows))

build_summary(detailed) == Finalize(Summary9Loop(EmptyDict, detailed))

\* combine_dailyshards.normalize_row
CityKeyOfRaw(raw) == Lower(Strip(raw))

normalize_row(r) ==
    LET raw_city == OrDefault(r.city, Unknown)
        raw_state == OrDefault(r.state, Unknown)
    IN [r EXCEPT !.movie = OrDefault(@, Unknown),
                 !.city = Title(Strip(raw_city)),
                 !.state = Title(Strip(raw_state)),
                 !.venue = OrDefault(@, Unknown),
                 !.language = Upper(OrDefault(@, UNKNOWN)),
                 !.dimension = Upper(OrDefault(@, UNKNOWN))]
       @@ [city_key |-> CityKeyOfRaw(raw_city), state_key |-> CityKeyOfRaw(raw_state)]

\* final_rows.sort(key=lambda x: (x["movie"], x["city"], x["venue"], x["time"])):
\* a stable sort.
SortKey(x) == <<x.movie, x.city, x.venue, x.time>>

RECURSIVE InsertSorted(_, _)
InsertSorted(sorted, x) ==
    IF sorted = <<>> THEN <<x>>
    ELSE IF TupleLess(SortKey(x), SortKey(Head(sorted)))
         THEN <<x>> \o sorted
         ELSE <<Head(sorted)>> \o InsertSorted(Tail(sorted), x)

RECURSIVE SortRows(_, _)
SortRows(rows, sorted) ==
    IF rows = <<>> THEN sorted ELSE SortRows(Tail(rows), InsertSorted(sorted, Head(rows)))

\* NORMALIZE + DEDUPE + SORT FINAL DETAILED
FinalRows(rows) ==
    SortRows(dedupe([i \in 1..Len(rows) |-> normalize_row(rows[i])])[1], <<>>)

\* BUILD FINAL SUMMARY: the city bucket is keyed by the row's folded keys.
RECURSIVE SummaryCombineLoop(_, _)
SummaryCombineLoop(summary, rows) ==
    IF rows = <<>> THEN summary
    ELSE LET r == Head(rows) IN
         SummaryCombineLoop(AddRow(summary, r, <<r.city_key, r.state_key>>, r.city_key,
                                   StatusExact(r.sold, r.totalSeats)),
                            Tail(rows))

FinalSummary(final_rows) == Finalize(SummaryCombineLoop(EmptyDict, final_rows))

\* The record lists drawn: one movie; a city spelled in two ways in one
\* state, and a city of the same name in another state; two venues; four
\* seat figures, one of a show that reports more available seats than seats.
AggPlaces == {[city |-> <<"M", "u", "m", "b", "a", "i">>, state |-> <<"M", "H">>],
              [city |-> <<"M", "U", "M", "B", "A", "I", " ">>, state |-> <<"m", "h">>],
              [city |-> <<"M", "u", "m", "b", "a", "i">>, state |-> <<"G", "A">>]}

AggVenues == {<<"v", "1">>, <<"v", "2">>}

AggSeats == {[totalSeats |-> 100, sold |-> 40, gross |-> 4000],
             [totalSeats |-> 100, sold |-> 98, gross |-> 9800],
             [totalSeats |-> 449, sold |-> 440, gross |-> 44000],
             [totalSeats |-> 10, sold |-> -2, gross |-> -200]}

AggRecords ==
    {[movie |-> <<"A">>, city |-> pl.city, state |-> pl.state, venue |-> v,
      time |-> <<"t">>, session_id |-> <<"s">>, audi |-> <<"a">>,
      language |-> <<"H", "i">>, dimension |-> <<"2", "D">>,
      totalSeats |-> x.totalSeats, sold |-> x.sold, gross |-> x.gross]
        : pl \in AggPlaces, v \in AggVenues, x \in AggSeats}

AggInit ==
    /\ NormIdle
    /\ MergeIdle
    /\ DiskIdle
    /\ BmsIdle
    /\ DistIdle
    /\ a_rows \in SeqsUpTo(AggRecords, MaxRows)
    /\ a_sum9 = <<>>
    /\ a_final = <<>>
    /\ a_sumc = <<>>
    /\ a_pc = {}

\* bmsdaily9.main on records parse returned: summary = build_summary(detailed)
BuildSummary9 ==
    /\ "s9" \notin a_pc
    /\ a_sum9' = build_summary(dedupe9(a_rows))
    /\ a_pc' = a_pc \cup {"s9"}
    /\ UNCHANGED <<a_rows, a_final, a_sumc>>
    /\ UNCHANGED notAgg

\* combine_dailyshards on the rows of the shard files
CombineShards ==
    /\ "combine" \notin a_pc
    /\ a_final' = FinalRows(a_rows)
    /\ a_sumc' = FinalSummary(FinalRows(a_rows))
    /\ a_pc' = a_pc \cup {"combine"}
    /\ UNCHANGED <<a_rows, a_sum9>>
    /\ UNCHANGED notAgg

AggNext == BuildSummary9 \/ CombineShards

SpecAgg == AggInit /\ [][AggNext]_vars

----------------------------------------------------------------------------
\* The normalizers: parse_payload and the cutoff filter of bmsdaily7, parse
\* and parse_showtime of bmsdaily9, applied to one venue's payload.

\* The values of a JSON payload: a number or a string.
Num(n) == [kind |-> "num", n |-> n]

Str(s) == [kind |-> "str", s |-> s]

\* d.get(k, default)
Get(d, k, default) == IF k \in DOMAIN d THEN d[k] ELSE default

\* The outcome of a call: a value or an exception.
Raise == [kind |-> "raise"]

Return(x) == [kind |-> "return", val |-> x]

Digits == <<"0", "1", "2", "3", "4", "5", "6", "7", "8", "9">>

IsDigit(c) == c \in Range(Digits)

DigitVal(c) == (CHOOSE i \in 1..Len(Digits) : Digits[i] = c) - 1

IsNumeral(s) == s # <<>> /\ \A i \in 1..Len(s) : IsDigit(s[i])

RECURSIVE NumeralVal(_, _)
NumeralVal(s, acc) ==
    IF s = <<>> THEN acc ELSE NumeralVal(Tail(s), acc * 10 + DigitVal(Head(s)))

\* int(v), float(v): a number is itself, a string is parsed (surrounding
\* whitespace allowed) or raises ValueError.
IntOf(v) ==
    IF v.kind = "num" THEN Return(v.n)
    ELSE IF IsNumeral(Strip(v.s)) THEN Return(NumeralVal(Strip(v.s), 0))
    ELSE Raise

\* for cat in sh.get("Categories", []): the sums of a show, or the exception
\* of a conversion.
RECURSIVE CategoriesLoop(_, _)
CategoriesLoop(cats, acc) ==
    IF cats = <<>> THEN Return(acc)
    ELSE LET cat == Head(cats)
             seats == IntOf(Get(cat, "MaxSeats", Num(0)))
             free == IntOf(Get(cat, "SeatsAvail", Num(0)))
             price == IntOf(Get(cat, "CurPrice", Num(0)))
         IN IF "raise" \in {seats.kind, free.kind, price.kind} THEN Raise
            ELSE CategoriesLoop(Tail(cats),
                    [total |-> acc.total + seats.val,
                     avail |-> acc.avail + free.val,
                     sold |-> acc.sold + (seats.val - free.val),
                     gross |-> acc.gross + (seats.val - free.val) * price.val])

DATE_CODE == "today"

\* for sh in ch.get("ShowTimes", []) of the event ev and child event ch of
\* the venue
RECURSIVE ShowTimesLoop(_, _, _, _, _)
ShowTimesLoop(shows, venue, ev, ch, out) ==
    IF shows = <<>> THEN Return(out)
    ELSE LET sh == Head(shows) IN
         IF Get(sh, "ShowDateCode", "") # DATE_CODE
         THEN ShowTimesLoop(Tail(shows), venue, ev, ch, out)
         ELSE LET sums == CategoriesLoop(Get(sh, "Categories", <<>>),
                                         [total |-> 0, avail |-> 0, sold |-> 0, gross |-> 0])
              IN IF sums.kind = "raise" THEN Raise
                 ELSE ShowTimesLoop(Tail(shows), venue, ev, ch,
                        Append(out,
                          [movie |-> Get(ev, "EventTitle", "Unknown"),
                           venue |-> Get(venue, "VenueName", ""),
                           language |-> Get(ch, "EventLanguage", "UNKNOWN"),
                           dimension |-> Get(ch, "EventDimension", "UNKNOWN"),
                           chain |-> Get(venue, "VenueCompName", "Unknown"),
                           time |-> Get(sh, "ShowTime", <<>>),
                           audi |-> Get(sh, "Attributes", ""),
                           session_id |-> Get(sh, "SessionId", ""),
                           totalSeats |-> sums.val.total,
                           available |-> sums.val.avail,
                           sold |-> sums.val.sold,
                           gross |-> sums.val.gross]))

\* parse_payload(data) for a payload of one event with one child event
parse_payload(data) ==
    LET sd == Get(data, "ShowDetails", <<>>) IN
    IF sd = <<>> THEN Return(<<>>)
    ELSE LET ev == sd[1].Event[1]
             ch == ev.ChildEvents[1]
         IN ShowTimesLoop(Get(ch, "ShowTimes", <<>>), Get(sd[1], "Venues", <<>>), ev, ch, <<>>)

\* The place of the first c in s, 0 when there is none.
Find(s, c) ==
    IF \E i \in 1..Len(s) : s[i] = c
    THEN CHOOSE i \in 1..Len(s) : s[i] = c /\ \A j \in 1..(i - 1) : s[j] # c
    ELSE 0

\* datetime.strptime(show_time, "%I:%M %p"): the minute of the day, or the
\* exception.
strptime_clock(show_time) ==
    LET colon == Find(show_time, ":")
        hourS == SubSeq(show_time, 1, colon - 1)
        rest == SubSeq(show_time, colon + 1, Len(show_time))
        sp == Find(rest, " ")
        minS == SubSeq(rest, 1, sp - 1)
        ampm == Upper(Strip(SubSeq(rest, sp + 1, Len(rest))))
    IN IF /\ colon > 0 /\ sp > 0
          /\ IsNumeral(hourS) /\ Len(hourS) <= 2
          /\ IsNumeral(minS) /\ Len(minS) <= 2
          /\ NumeralVal(hourS, 0) \in 1..12
          /\ NumeralVal(minS, 0) \in 0..59
          /\ ampm \in {<<"A", "M">>, <<"P", "M">>}
       THEN Return((NumeralVal(hourS, 0) % 12) * 60 + NumeralVal(minS, 0)
                   + (IF ampm = <<"P", "M">> THEN 720 ELSE 0))
       ELSE Raise

\* datetime.now(IST), as the minute of the day: 06:00 PM
NowMinute == 1080

CUTOFF_MINUTES == 200

\* minutes_left(show_time)
minutes_left(show_time) ==
    LET t == strptime_clock(show_time) IN
    IF t.kind = "raise" THEN 9999 ELSE t.val - NowMinute

\* The try body of the first pass (and of a retry round) for one venue:
\* the rows it appends to all_rows and whether the except branch ran.
TryVenue(raw, meta) ==
    LET parsed == parse_payload(raw)
        Kept(r) == minutes_left(r.time) <= CUTOFF_MINUTES
        Updated(r) ==
            [minutes_left |-> minutes_left(r.time),
             city |-> Get(meta, "City", "Unknown"),
             state |-> Get(meta, "State", "Unknown"),
             date |-> DATE_CODE,
             source |-> "BMS"] @@ r
    IN IF parsed.kind = "raise" THEN [rows |-> <<>>, failed |-> TRUE]
       ELSE LET kept == SelectSeq(parsed.val, Kept) IN
            [rows |-> [i \in 1..Len(kept) |-> Updated(kept[i])], failed |-> FALSE]

\* The payloads drawn for bmsdaily7.
BmsTiers ==
    {[MaxSeats |-> Num(50), SeatsAvail |-> Num(10), CurPrice |-> Num(200)],
     [MaxSeats |-> Str(<<"3", "0">>), SeatsAvail |-> Num(30), CurPrice |-> Num(150)],
     [MaxSeats |-> Str(<<"N", "A">>), SeatsAvail |-> Num(0), CurPrice |-> Num(150)],
     [SeatsAvail |-> Num(5), CurPrice |-> Num(100)]}

BmsTimes == {<<"0", "7", ":", "3", "0", " ", "P", "M">>,
             <<"1", "1", ":", "0", "0", " ", "P", "M">>,
             <<"T", "B", "A">>}

BmsShows ==
    {[ShowDateCode |-> d, ShowTime |-> t, Attributes |-> "a", SessionId |-> t,
      Categories |-> cats]
        : d \in {DATE_CODE, "other"}, t \in BmsTimes, cats \in SeqsUpTo(BmsTiers, MaxTiers)}

BmsPayloads ==
    {[ShowDetails |-> <<>>]} \cup
    {[ShowDetails |->
        <<[Venues |-> [VenueName |-> "v1", VenueCompName |-> "c1"],
           Event |-> <<[EventTitle |-> "A",
                        ChildEvents |-> <<[EventLanguage |-> "Hi",
                                           EventDimension |-> "2D",
                                           ShowTimes |-> shows]>>]>>]>>]
        : shows \in SeqsUpTo(BmsShows, MaxShows) \ {<<>>}}

\* strftime("%I:%M %p") of a minute of the day
TwoDigits(n) == <<Digits[(n \div 10) + 1], Digits[(n % 10) + 1]>>

strftime_clock(minute) ==
    LET h == (minute \div 60) % 12 IN
    TwoDigits(IF h = 0 THEN 12 ELSE h) \o <<":">> \o TwoDigits(minute % 60)
        \o <<" ">> \o (IF minute >= 720 THEN <<"P", "M">> ELSE <<"A", "M">>)

\* .replace(tzinfo=pytz.UTC).astimezone(IST): IST is UTC + 05:30
ToIST(minute) == (minute + 330) % 1440

\* datetime.strptime(show_time, "%Y-%m-%dT%H:%M"): the minute of the day, or
\* the exception.
strptime_iso(st) ==
    IF /\ Len(st) = 16
       /\ st[5] = "-" /\ st[8] = "-" /\ st[11] = "T" /\ st[14] = ":"
       /\ \A i \in {1, 2, 3, 4, 6, 7, 9, 10, 12, 13, 15, 16} : IsDigit(st[i])
       /\ NumeralVal(SubSeq(st, 6, 7), 0) \in 1..12
       /\ NumeralVal(SubSeq(st, 9, 10), 0) \in 1..31
       /\ NumeralVal(SubSeq(st, 12, 13), 0) \in 0..23
       /\ NumeralVal(SubSeq(st, 15, 16), 0) \in 0..59
    THEN Return(NumeralVal(SubSeq(st, 12, 13), 0) * 60 + NumeralVal(SubSeq(st, 15, 16), 0))
    ELSE Raise

\* The showTime of a session that has none.
NoTime == [kind |-> "null"]

\* parse_showtime(show_time)
parse_showtime(show_time) ==
    IF show_time.kind = "null" THEN <<>>
    ELSE IF show_time.kind = "num"
         THEN IF show_time.n = 0 THEN <<>>
              ELSE strftime_clock(ToIST((show_time.n \div 60000) % 1440))
    ELSE IF show_time.s = <<>> THEN <<>>
    ELSE IF IsNumeral(show_time.s)
         THEN strftime_clock(ToIST((NumeralVal(show_time.s, 0) \div 60000) % 1440))
    ELSE LET t == strptime_iso(show_time.s) IN
         IF t.kind = "raise" THEN <<>> ELSE strftime_clock(ToIST(t.val))

\* norm(s)
norm(s) == IF s = <<>> THEN UNKNOWN ELSE Strip(s)

\* sum(... for a in s.get("areas", []) or [])
RECURSIVE AreasGross(_)
AreasGross(areas) ==
    IF areas = <<>> THEN 0
    ELSE LET a == Head(areas) IN
         (Get(a, "sTotal", 0) - Get(a, "sAvail", 0)) * Get(a, "price", 0)
             + AreasGross(Tail(areas))

\* movie_map.get(s.get("mid")): the movie of that id, <<>> when there is none
MovieOf(movies, mid) ==
    IF \E i \in 1..Len(movies) : movies[i].id = mid
    THEN movies[CHOOSE i \in 1..Len(movies) :
                    movies[i].id = mid /\ \A j \in (i + 1)..Len(movies) : movies[j].id # mid]
    ELSE <<>>

\* for s in data.get("pageData", {}).get("sessions", []) or []
RECURSIVE SessionsLoop(_, _, _, _, _)
SessionsLoop(sessions, movies, venue_meta, venue_name, detailed) ==
    IF sessions = <<>> THEN Return(detailed)
    ELSE LET ss == Head(sessions)
             movie == MovieOf(movies, Get(ss, "mid", 0))
             total == IntOf(Get(ss, "total", Num(0)))
             avail == IntOf(Get(ss, "avail", Num(0)))
         IN IF movie = <<>>
            THEN SessionsLoop(Tail(sessions), movies, venue_meta, venue_name, detailed)
            ELSE IF "raise" \in {total.kind, avail.kind} THEN Raise
            ELSE SessionsLoop(Tail(sessions), movies, venue_meta, venue_name,
                   Append(detailed,
                     [movie |-> Get(movie, "name", "Unknown"),
                      city |-> Get(venue_meta, "city", "Unknown"),
                      state |-> Get(venue_meta, "state", "Unknown"),
                      venue |-> venue_name,
                      time |-> parse_showtime(Get(ss, "showTime", NoTime)),
                      audi |-> Get(ss, "audi", ""),
                      session_id |-> Get(ss, "id", ""),
                      totalSeats |-> total.val,
                      available |-> avail.val,
                      sold |-> total.val - avail.val,
                      gross |-> AreasGross(Get(ss, "areas", <<>>)),
                      language |-> norm(Get(ss, "lang", <<>>)),
                      dimension |-> norm(Get(ss, "scrnFmt", <<>>)),
                      source |-> "District",
                      date |-> DATE_CODE]))

\* parse([res]): the body of `for res in results` for one result, then dedupe
ParseResult(res) ==
    LET rows == SessionsLoop(res.data.pageData.sessions, res.data.meta.movies,
                             res.venue, Get(res.venue, "name", "Unknown"), <<>>)
    IN IF rows.kind = "raise" THEN Raise ELSE Return(dedupe9(rows.val))

\* The results drawn for bmsdaily9.
DistAreas == {[sTotal |-> 50, sAvail |-> 10, price |-> 200],
              [sTotal |-> 30, sAvail |-> 30, price |-> 150]}

DistSeats == {[total |-> Num(80), avail |-> Num(40)],
              [total |-> Str(<<"5", "0">>), avail |-> Num(60)]}

DistTimes == {NoTime,
              Num(1800000),
              Str(<<"2", "0", "2", "6", "-", "0", "1", "-", "0", "4", "T",
                    "1", "8", ":", "3", "0">>),
              Str(<<"T", "B", "A">>)}

DistSessions ==
    {[mid |-> 1, id |-> i, audi |-> "a", lang |-> <<"H", "i">>, scrnFmt |-> <<"2", "D", " ">>,
      total |-> x.total, avail |-> x.avail, areas |-> areas, showTime |-> t]
        : i \in {"s1", "s2"}, x \in DistSeats, t \in DistTimes,
          areas \in SeqsUpTo(DistAreas, MaxTiers)}

DistResults ==
    {[venue |-> [name |-> "v1", city |-> "Pune", state |-> "MH"],
      data |-> [meta |-> [movies |-> <<[id |-> 1, name |-> "A"]>>],
                pageData |-> [sessions |-> sessions]]]
        : sessions \in SeqsUpTo(DistSessions, MaxShows)}

NormInit ==
    /\ MergeIdle
    /\ DiskIdle
    /\ BmsIdle
    /\ DistIdle
    /\ AggIdle
    /\ \/ n_src = "bms" /\ n_data \in BmsPayloads /\ n_res = <<>>
       \/ n_src = "district" /\ n_data = <<>> /\ n_res \in DistResults
    /\ n_all_rows = <<>>
    /\ n_failed = <<>>
    /\ n_detailed = <<>>
    /\ n_pc = "drawn"

\* bmsdaily7: the first-pass iteration of venue "V1" with the payload n_data
NormalizeBms ==
    /\ n_pc = "drawn"
    /\ n_src = "bms"
    /\ LET t == TryVenue(n_data, [City |-> "Pune", State |-> "MH"]) IN
          /\ n_all_rows' = n_all_rows \o t.rows
          /\ n_failed' = IF t.failed THEN Append(n_failed, "V1") ELSE n_failed
    /\ n_pc' = "done"
    /\ UNCHANGED <<n_src, n_data, n_res, n_detailed>>
    /\ UNCHANGED notNorm

\* bmsdaily9: detailed = parse(results) for the one result n_res; an
\* exception of parse ends the run
NormalizeDistrict ==
    /\ n_pc = "drawn"
    /\ n_src = "district"
    /\ LET parsed == ParseResult(n_res) IN
          /\ n_detailed' = IF parsed.kind = "raise" THEN n_detailed ELSE parsed.val
          /\ n_pc' = IF parsed.kind = "raise" THEN "crashed" ELSE "done"
    /\ UNCHANGED <<n_src, n_data, n_res, n_all_rows, n_failed>>
    /\ UNCHANGED notNorm

NormNext == NormalizeBms \/ NormalizeDistrict

SpecNorm == NormInit /\ [][NormNext]_vars

----------------------------------------------------------------------------
\* Properties of the merge and of dedupe

\* The identity key of a record, field by field.
SameShow(a, b) ==
    /\ a.venue = b.venue /\ a.time = b.time
    /\ a.session_id = b.session_id /\ a.audi = b.audi

KeyOccursIn(r, rows) == \E j \in 1..Len(rows) : SameShow(rows[j], r)

KeysUnique(rows) ==
    \A i, j \in 1..Len(rows) : SameShow(rows[i], rows[j]) => i = j

\* C1: merging the same new records a second time gives the same set of
\* records with the same field values as merging them once.
C1_MergeIdempotent ==
    m_pc = "again" => Range(m_out) = Range(m_first)

\* The second merge changes the result only when the new records hold two
\* records of one show with different field sets: otherwise it is idempotent.
SameFieldsPerShow(rows) ==
    \A i, j \in 1..Len(rows) :
        SameShow(rows[i], rows[j]) => DOMAIN rows[i] = DOMAIN rows[j]

IdempotentOnUniformFields ==
    (m_pc = "again" /\ SameFieldsPerShow(m_new)) => Range(m_out) = Range(m_first)

\* C2 as claimed: every record of the prior snapshot whose key does not occur
\* in the new records is in the merge result unchanged, also when the
\* snapshot holds several records of one key.
C2_EveryOldRecordKept ==
    m_pc = "merged" =>
        \A i \in 1..Len(m_old) :
            ~KeyOccursIn(m_old[i], m_new) => m_old[i] \in Range(m_out)

\* C2 as amended: every record of the prior snapshot whose key does not occur
\* in the new records, and which is the last record of the snapshot with its
\* key, is in the merge result unchanged.
LastOfItsKey(rows, i) ==
    \A j \in (i + 1)..Len(rows) : ~SameShow(rows[j], rows[i])

C2_LastOldRecordKept ==
    m_pc = "merged" =>
        \A i \in 1..Len(m_old) :
            (~KeyOccursIn(m_old[i], m_new) /\ LastOfItsKey(m_old, i))
                => m_old[i] \in Range(m_out)

\* A merge of a non-empty list of new records that leaves a snapshot record
\* of another show in place.
C2_Witness ==
    /\ m_pc = "merged"
    /\ Len(m_new) > 0
    /\ \E i \in 1..Len(m_old) :
          /\ ~KeyOccursIn(m_old[i], m_new)
          /\ "chain" \in DOMAIN m_old[i]
          /\ m_old[i] \in Range(m_out)

\* The record of the merge result with the key of r.
MergedOf(r) == CHOOSE o \in Range(m_out) : SameShow(o, r)

\* The record o has the field f with the value v.
FieldIs(o, f, v) == f \in DOMAIN o /\ o[f] = v

\* The fields of the new records of r's show.
NewFieldsOf(r) ==
    UNION {DOMAIN m_new[j] : j \in {n \in 1..Len(m_new) : SameShow(m_new[n], r)}}

\* C16 as claimed: every new record whose key is in the prior snapshot is
\* found in the merge result with all of its own field values, the fields
\* that only the old record has keep the old value, and the result has one
\* record of the key.
C16_NewRecordWins ==
    m_pc = "merged" =>
        \A i \in 1..Len(m_new) : \A k \in 1..Len(m_old) :
            (SameShow(m_old[k], m_new[i]) /\ LastOfItsKey(m_old, k)) =>
                /\ Cardinality({n \in 1..Len(m_out) : SameShow(m_out[n], m_new[i])}) = 1
                /\ \A f \in DOMAIN m_new[i] : FieldIs(MergedOf(m_new[i]), f, m_new[i][f])
                /\ \A f \in (DOMAIN m_old[k]) \ (DOMAIN m_new[i]) :
                      FieldIs(MergedOf(m_new[i]), f, m_old[k][f])

\* C16 as amended: of the new records of one show the last one wins; the
\* fields that no new record of the show has keep the value of the
\* snapshot's (last) record of the show.
C16_LastNewRecordWins ==
    m_pc = "merged" =>
        \A i \in 1..Len(m_new) : \A k \in 1..Len(m_old) :
            (/\ SameShow(m_old[k], m_new[i])
             /\ LastOfItsKey(m_old, k)
             /\ LastOfItsKey(m_new, i)) =>
                /\ Cardinality({n \in 1..Len(m_out) : SameShow(m_out[n], m_new[i])}) = 1
                /\ \A f \in DOMAIN m_new[i] : FieldIs(MergedOf(m_new[i]), f, m_new[i][f])
                /\ \A f \in (DOMAIN m_old[k]) \ NewFieldsOf(m_new[i]) :
                      FieldIs(MergedOf(m_new[i]), f, m_old[k][f])

\* A re-observed show merged: the snapshot's record has a chain and the new
\* record has none and another sold figure; the result has both.
C16_Witness ==
    /\ m_pc = "merged"
    /\ \E i \in 1..Len(m_new) : \E k \in 1..Len(m_old) :
          /\ SameShow(m_old[k], m_new[i])
          /\ "chain" \in DOMAIN m_old[k]
          /\ "chain" \notin DOMAIN m_new[i]
          /\ m_old[k].sold # m_new[i].sold
          /\ "chain" \in DOMAIN MergedOf(m_new[i])
          /\ MergedOf(m_new[i]).sold = m_new[i].sold

\* C4: no two records of the merge result, and no two records of the list
\* dedupe returns, have the same identity key.
C4_KeysUnique ==
    /\ m_pc \in {"merged", "again"} => KeysUnique(m_out)
    /\ m_dd => (KeysUnique(m_ded9) /\ KeysUnique(m_dedc[1]))

\* Inputs that repeat a key, merged and deduped.
C4_Witness ==
    /\ m_pc = "merged"
    /\ m_dd
    /\ ~KeysUnique(m_old)
    /\ ~KeysUnique(m_new)
    /\ m_dedc[2] > 0
    /\ Len(m_ded9) < Len(m_old) + Len(m_new)
    /\ Len(m_out) > 0

----------------------------------------------------------------------------
\* Properties of the sequential scraper's run

Occurrences(seq, x) == Cardinality({i \in 1..Len(seq) : seq[i] = x})

RECURSIVE IsSubSeq(_, _)
IsSubSeq(a, b) ==
    IF a = <<>> THEN TRUE
    ELSE IF b = <<>> THEN FALSE
    ELSE IF Head(a) = Head(b) THEN IsSubSeq(Tail(a), Tail(b))
    ELSE IsSubSeq(a, Tail(b))

\* The venues of the sequence q that have failed every attempt made so far.
RECURSIVE StillFailing(_, _)
StillFailing(q, fails) ==
    IF q = <<>> THEN <<>>
    ELSE (IF fails[Head(q)] = b_attempts'[Head(q)] THEN <<Head(q)>> ELSE <<>>)
             \o StillFailing(Tail(q), fails)

\* In a retry round the queue holds no venue twice; the venues before the
\* current place have been attempted once in this round, those after it not
\* yet, the one at it if its call has begun; next_pending holds, in queue
\* order, venues already attempted in this round; a venue outside the queue
\* has succeeded and was attempted once more than it failed.  The loop is in
\* a round only with a non-empty queue and a round number of at most
\* MAX_RETRIES, and is left only with an empty queue or after MAX_RETRIES
\* rounds.
RoundState ==
    /\ b_pc = "retry" =>
          /\ pending # <<>>
          /\ retry_round \in 1..MAX_RETRIES
          /\ b_i \in 1..Len(pending)
          /\ \A i, j \in 1..Len(pending) : pending[i] = pending[j] => i = j
          /\ \A j \in 1..Len(pending) :
                b_attempts[pending[j]] =
                    IF j < b_i \/ (j = b_i /\ b_call # "idle")
                    THEN 1 + retry_round ELSE retry_round
          /\ IsSubSeq(next_pending, SubSeq(pending, 1, b_i - 1))
          /\ \A v \in VenueSet \ Range(pending) : b_attempts[v] = b_fails[v] + 1
    /\ b_pc \in {"report", "merge", "done"} =>
          (pending = <<>> \/ retry_round = MAX_RETRIES + 1)

\* A venue is attempted again only if it has failed every attempt so far;
\* the queue of the next round is the queue of this round without the venues
\* that succeeded in it, in the same order.
RoundStep ==
    (run' = run /\ b_pc # "idle") =>
        /\ \A v \in VenueSet :
              b_attempts'[v] # b_attempts[v] =>
                  /\ b_attempts'[v] = b_attempts[v] + 1
                  /\ b_fails[v] = b_attempts[v]
                  /\ v = CurrentVenue
        /\ (b_pc = "retry" /\ retry_round' # retry_round) =>
              /\ retry_round' = retry_round + 1
              /\ pending' = StillFailing(pending, b_fails')
              /\ IsSubSeq(pending', pending)

C6_IdentityReuse ==
    (b_pc # "idle" /\ b_worker = "finished" /\ b_prevIdent # 0) =>
        IF b_lastFailed
        THEN b_curIdent # b_prevIdent /\ b_curIdent = b_nident
        ELSE b_curIdent = b_prevIdent

\* What the code does instead: every fetch runs in a thread of its own, finds
\* no thread_local.identity there and creates one; reset_identity finds none
\* in the coordinating thread.
EveryFetchNewIdentity ==
    b_pc # "idle" =>
        /\ b_tls.main = 0
        /\ b_worker = "finished" => (b_curIdent = b_nident /\ b_curIdent # b_prevIdent)

\* C7: once the hard deadline has fired with the call still running, the
\* wrapper can hand the timeout to the coordinator at once, without the call
\* having finished.
C7_DeadlineAbandonsCall ==
    (b_call = "shutdown" /\ b_worker = "running") => ENABLED WrapperRaiseTimeout

\* What the code does instead: the timeout reaches the coordinator only in a
\* step taken with the executor thread finished.
TimeoutWaitsForCall ==
    [][(b_call = "shutdown" /\ b_call' = "idle") => b_worker = "finished"]_vars

\* C5: a show that is in the persisted snapshot before a step of a run is in
\* it after the step.
C5_SnapshotKept ==
    [][\A i \in 1..Len(detailed_file) : KeyOccursIn(detailed_file[i], detailed_file')]_vars

----------------------------------------------------------------------------
\* Properties of the bounded-concurrency scraper's run

InFlight == {v \in DistVenueSet : d_task[v] = "inflight"}

\* C9: at most CONCURRENCY fetches are in flight at any time; when fetch_all
\* has returned every venue has been attempted exactly once, and what it
\* returned is one result for each venue whose response was usable, whatever
\* the order in which the fetches completed.
C9_BoundedConcurrency ==
    d_pc # "idle" =>
        /\ Cardinality(InFlight) <= CONCURRENCY
        /\ \A v \in DistVenueSet : d_attempts[v] <= 1
        /\ d_pc \in {"fetched", "done"} =>
              /\ \A v \in DistVenueSet : d_attempts[v] = 1
              /\ {o.venue : o \in Range(d_out)} =
                     {v \in DistVenueSet : d_resp[v].kind = "ok"}
              /\ \A i \in 1..Len(d_out) : d_out[i].data = d_resp[d_out[i].venue].rows
              /\ \A i, j \in 1..Len(d_out) : d_out[i].venue = d_out[j].venue => i = j

\* fetch_all has returned after a task had to wait for a permit; a later
\* venue's fetch gave a result and an earlier one's gave none.
C9_Witness ==
    /\ d_pc = "fetched"
    /\ d_waited
    /\ \E v, w \in DistVenueSet :
          v < w /\ d_resp[v].kind = "blocked" /\ d_resp[w].kind = "ok"
    /\ Len(d_out) > 0

\* The semaphore is exhausted while a later venue has completed before an
\* earlier one.
SemaphoreExhausted ==
    /\ d_pc = "fetching"
    /\ Cardinality(InFlight) = CONCURRENCY
    /\ \E v, w \in DistVenueSet : v < w /\ d_task[v] = "inflight" /\ d_task[w] = "done"

\* C8: a response whose body is no JSON object is a failure told apart from a
\* network failure, puts the venue up for another attempt, and leaves the
\* worker without its identity -- in the sequential scraper and in the
\* bounded-concurrency scraper.
C8_BlockedIsRetryable ==
    /\ b_pc # "idle" =>
          /\ \A v \in VenueSet : \A resp \in Responses(v) :
                (resp.net = "ok" /\ ~StartsWith(Strip(resp.text), "{")) =>
                    /\ FetchBody(resp).kind = "raise"
                    /\ FetchBody(resp).msg # FetchBody([resp EXCEPT !.net = "error"]).msg
          /\ \A v \in VenueSet : b_fails[v] > 0 => v \in Range(failed_venues)
          /\ (b_lastFailed /\ b_call = "idle") => (b_tls.main = 0 /\ b_tls.worker = 0)
    /\ (d_pc \in {"fetched", "done"}) =>
          \A v \in DistVenueSet :
              d_resp[v].kind = "blocked" =>
                  /\ \A w \in DistVenueSet :
                        d_resp[w].kind = "neterror" => d_results[v] # d_results[w]
                  /\ d_attempts[v] > 1

\* What the bounded-concurrency scraper does instead: a blocked venue gives
\* None like every other failure and is not attempted again in the run.
BlockedIsDropped ==
    (d_pc \in {"fetched", "done"}) =>
        \A v \in DistVenueSet :
            d_resp[v].kind = "blocked" =>
                d_results[v] = None /\ d_attempts[v] = 1 /\ v \notin {o.venue : o \in Range(d_out)}

----------------------------------------------------------------------------
\* Properties of the aggregations

\* The city and state of a record or bucket with case and surrounding
\* whitespace folded away.
FoldedCity(r) == <<Lower(Strip(r.city)), Lower(Strip(r.state))>>

\* The places of the rows of r's movie and folded city.
RowsOfCity(rows, r) ==
    {j \in 1..Len(rows) : rows[j].movie = r.movie /\ FoldedCity(rows[j]) = FoldedCity(r)}

\* Every two rows of one movie and one folded city are counted in a single
\* City_details bucket of the written summary, shown under the trimmed,
\* title-cased city name, whose shows and venues are those of all such rows.
CityGrouped(rows, final) ==
    \A i, j \in 1..Len(rows) :
        (i # j /\ j \in RowsOfCity(rows, rows[i])) =>
            LET r == rows[i]
                cd == DictGet(final, r.movie).City_details
                bs == {k \in 1..Len(cd) : FoldedCity(cd[k]) = FoldedCity(r)}
                same == RowsOfCity(rows, r)
            IN /\ Cardinality(bs) = 1
               /\ \A k \in bs :
                    /\ cd[k].city = Title(Strip(r.city))
                    /\ cd[k].shows = Cardinality(same)
                    /\ cd[k].venues = Cardinality({rows[n].venue : n \in same})

\* The combiner groups cities case-insensitively.
CombinerGroupsCities == ("combine" \in a_pc) => CityGrouped(a_final, a_sumc)

\* C10: in every aggregation that produces City_details (build_summary of
\* bmsdaily9 and the combiner's final summary), two records of one movie whose
\* city and state differ only in letter case or surrounding whitespace fall
\* into one City_details bucket, which combines the shows and venues of both
\* and is shown under the trimmed, title-cased city name.
C10_CaseInsensitiveCityGrouping ==
    /\ ("s9" \in a_pc) => CityGrouped(dedupe9(a_rows), a_sum9)
    /\ ("combine" \in a_pc) => CityGrouped(a_final, a_sumc)

\* The combiner has merged a "Mumbai" row and a "MUMBAI " row into one bucket.
CombinerMergedSpellings ==
    /\ "combine" \in a_pc
    /\ \E i, j \in 1..Len(a_rows) :
        /\ a_rows[i].city # a_rows[j].city
        /\ FoldedCity(a_rows[i]) = FoldedCity(a_rows[j])
        /\ a_rows[i].venue # a_rows[j].venue
    /\ Len(DictGet(a_sumc, <<"A">>).City_details) = 1

\* The class of a show by its exact occupancy sold / total * 100 (0 when
\* total is 0).
OccupancyClass(sold, total) ==
    IF total = 0 THEN "none"
    ELSE IF sold * 100 >= 98 * total THEN "housefull"
    ELSE IF sold * 100 >= 50 * total THEN "fastfilling"
    ELSE "none"

\* The counts of the bucket b are those of the rows at the places in.
CountsMatch(b, rows, in) ==
    /\ b.shows = Cardinality(in)
    /\ b.housefull =
          Cardinality({i \in in : OccupancyClass(rows[i].sold, rows[i].totalSeats) = "housefull"})
    /\ b.fastfilling =
          Cardinality({i \in in : OccupancyClass(rows[i].sold, rows[i].totalSeats) = "fastfilling"})

\* Every bucket of the written summary, at the movie, city, language and
\* format level, counts each of its rows once in shows and classifies it by
\* its exact occupancy.
Classified(rows, final) ==
    \A k \in 1..Len(final.keys) :
        LET M == final.val[k]
            ofMovie == {i \in 1..Len(rows) : rows[i].movie = final.keys[k]}
        IN /\ CountsMatch(M, rows, ofMovie)
           /\ \A n \in 1..Len(M.City_details) :
                 LET b == M.City_details[n] IN
                 CountsMatch(b, rows, {i \in ofMovie : rows[i].city = b.city
                                                        /\ rows[i].state = b.state})
           /\ \A n \in 1..Len(M.Language_details) :
                 LET b == M.Language_details[n] IN
                 CountsMatch(b, rows, {i \in ofMovie : rows[i].language = b.language})
           /\ \A n \in 1..Len(M.Format_details) :
                 LET b == M.Format_details[n] IN
                 CountsMatch(b, rows, {i \in ofMovie : rows[i].dimension = b.dimension})

\* The combiner classifies by the exact occupancy.
CombinerClassifiesExactly == ("combine" \in a_pc) => Classified(a_final, a_sumc)

\* C11: in the shard summary and in the combiner's summary every show adds 1
\* to shows and is counted housefull iff its exact occupancy is at least 98,
\* fast-filling iff it is at least 50 and below 98, and neither otherwise, the
\* same at the movie, city, language and format level.
C11_StatusClassification ==
    /\ ("s9" \in a_pc) => Classified(dedupe9(a_rows), a_sum9)
    /\ ("combine" \in a_pc) => Classified(a_final, a_sumc)

----------------------------------------------------------------------------
\* Properties of the normalizers

RECURSIVE SumOf(_, _)
SumOf(tiers, f) ==
    IF tiers = <<>> THEN 0 ELSE Head(tiers)[f] + SumOf(Tail(tiers), f)

RECURSIVE TierGross(_)
TierGross(tiers) ==
    IF tiers = <<>> THEN 0
    ELSE (Head(tiers).total - Head(tiers).avail) * Head(tiers).price + TierGross(Tail(tiers))

\* The record r has the seat and gross figures derived from the price tiers
\* (each a total, an availability and a price).
FiguresOfTiers(r, tiers) ==
    /\ r.totalSeats = SumOf(tiers, "total")
    /\ r.available = SumOf(tiers, "avail")
    /\ r.sold = r.totalSeats - r.available
    /\ r.gross = TierGross(tiers)

\* The price tiers of a show of the bmsdaily7 payload and of a session of the
\* bmsdaily9 payload.
BmsTiersOf(sh) ==
    [i \in 1..Len(sh.Categories) |->
        [total |-> IntOf(Get(sh.Categories[i], "MaxSeats", Num(0))).val,
         avail |-> IntOf(Get(sh.Categories[i], "SeatsAvail", Num(0))).val,
         price |-> IntOf(Get(sh.Categories[i], "CurPrice", Num(0))).val]]

DistTiersOf(ss) ==
    [i \in 1..Len(ss.areas) |->
        [total |-> ss.areas[i].sTotal, avail |-> ss.areas[i].sAvail,
         price |-> ss.areas[i].price]]

\* The shows of the payload given to bmsdaily7.
ShowsOfData ==
    IF n_data = <<>> \/ n_data.ShowDetails = <<>> THEN <<>>
    ELSE n_data.ShowDetails[1].Event[1].ChildEvents[1].ShowTimes

SessionsOfRes == IF n_res = <<>> THEN <<>> ELSE n_res.data.pageData.sessions

\* parse_payload derives the figures of every record from the tiers.
BmsFiguresFromTiers ==
    \A i \in 1..Len(n_all_rows) :
        \E k \in 1..Len(ShowsOfData) :
            /\ ShowsOfData[k].SessionId = n_all_rows[i].session_id
            /\ ShowsOfData[k].ShowDateCode = DATE_CODE
            /\ FiguresOfTiers(n_all_rows[i], BmsTiersOf(ShowsOfData[k]))

\* C12: every record emitted by a normalizer (parse_payload of bmsdaily7,
\* parse of bmsdaily9) has totalSeats and available equal to the sums over
\* the show's price tiers, sold = totalSeats - available, and gross the sum
\* over the tiers of (total - available) * price.
C12_DerivedFigures ==
    /\ BmsFiguresFromTiers
    /\ \A i \in 1..Len(n_detailed) :
          \E k \in 1..Len(SessionsOfRes) :
              /\ SessionsOfRes[k].id = n_detailed[i].session_id
              /\ FiguresOfTiers(n_detailed[i], DistTiersOf(SessionsOfRes[k]))

\* The example of two tiers (50, 10, 200) and (30, 30, 150): sold 40, gross 8000.
TwoTierExample ==
    /\ n_pc = "done"
    /\ \E i \in 1..Len(n_all_rows) :
          /\ n_all_rows[i].totalSeats = 80
          /\ n_all_rows[i].sold = 40
          /\ n_all_rows[i].gross = 8000

NoTwoTierExample == ~TwoTierExample

\* The sum of the field f of the rows at the places in whose sold is not
\* negative.
RECURSIVE SumSound(_, _, _, _)
SumSound(rows, i, in, f) ==
    IF i > Len(rows) THEN 0
    ELSE (IF i \in in /\ rows[i].sold >= 0 THEN rows[i][f] ELSE 0)
             + SumSound(rows, i + 1, in, f)

\* The bucket b of the rows at the places in is not lowered by a row of
\* negative sold and keeps 0 <= sold <= totalSeats.
BucketSound(b, rows, in) ==
    /\ b.sold >= SumSound(rows, 1, in, "sold")
    /\ b.gross >= SumSound(rows, 1, in, "gross")
    /\ 0 <= b.sold
    /\ b.sold <= b.totalSeats

AggregatesSound(rows, final) ==
    \A k \in 1..Len(final.keys) :
        LET M == final.val[k]
            ofMovie == {i \in 1..Len(rows) : rows[i].movie = final.keys[k]}
        IN /\ BucketSound(M, rows, ofMovie)
           /\ \A n \in 1..Len(M.City_details) :
                 LET b == M.City_details[n] IN
                 BucketSound(b, rows, {i \in ofMovie : rows[i].city = b.city
                                                        /\ rows[i].state = b.state})
           /\ \A n \in 1..Len(M.Language_details) :
                 LET b == M.Language_details[n] IN
                 BucketSound(b, rows, {i \in ofMovie : rows[i].language = b.language})
           /\ \A n \in 1..Len(M.Format_details) :
                 LET b == M.Format_details[n] IN
                 BucketSound(b, rows, {i \in ofMovie : rows[i].dimension = b.dimension})

\* C13: a record that reports more available seats than seats (negative
\* sold) lowers no summary bucket's summed sold or gross, and every bucket
\* keeps 0 <= sold <= totalSeats.
C13_NegativeSeatsContained ==
    /\ ("s9" \in a_pc) => AggregatesSound(dedupe9(a_rows), a_sum9)
    /\ ("combine" \in a_pc) => AggregatesSound(a_final, a_sumc)

\* What the code does instead: every bucket's sold and gross are the plain
\* sums over its rows, negative ones included.
RECURSIVE SumAll(_, _)
SumAll(rows, f) == IF rows = <<>> THEN 0 ELSE Head(rows)[f] + SumAll(Tail(rows), f)

NegativeSoldIsSummed ==
    ("combine" \in a_pc) =>
        \A k \in 1..Len(a_sumc.keys) :
            /\ a_sumc.val[k].sold = SumAll(a_final, "sold")
            /\ a_sumc.val[k].gross = SumAll(a_final, "gross")

\* The shows of today's date in the bmsdaily7 payload whose time cannot be
\* parsed, and the sessions of the bmsdaily9 payload whose showTime cannot.
UnparseableShows ==
    {k \in 1..Len(ShowsOfData) :
        /\ ShowsOfData[k].ShowDateCode = DATE_CODE
        /\ strptime_clock(ShowsOfData[k].ShowTime).kind = "raise"}

UnparseableSessions ==
    {k \in 1..Len(SessionsOfRes) :
        /\ SessionsOfRes[k].showTime.kind = "str"
        /\ ~IsNumeral(SessionsOfRes[k].showTime.s)
        /\ strptime_iso(SessionsOfRes[k].showTime.s).kind = "raise"}

\* bmsdaily9 emits the record of a session whose showTime cannot be parsed,
\* with the time "".
DistrictKeepsUnparseable ==
    (n_pc = "done" /\ n_src = "district") =>
        \A k \in UnparseableSessions :
            \E i \in 1..Len(n_detailed) :
                /\ n_detailed[i].session_id = SessionsOfRes[k].id
                /\ n_detailed[i].time = <<>>

\* C14: a show whose time cannot be parsed raises nothing and is not lost:
\* its record is in the run's record list after the normalizer and the
\* caller's minutes-until-showtime cutoff (bmsdaily7), and is emitted with the
\* failure sentinel as its time (bmsdaily9).
C14_UnparseableTimeKept ==
    /\ (n_pc = "done" /\ n_src = "bms" /\ n_failed = <<>>) =>
          \A k \in UnparseableShows :
              \E i \in 1..Len(n_all_rows) :
                  n_all_rows[i].session_id = ShowsOfData[k].SessionId
    /\ DistrictKeepsUnparseable

\* What bmsdaily7 does instead: no record of the run's list has a time that
\* cannot be parsed.
UnparseableDropped ==
    \A i \in 1..Len(n_all_rows) : strptime_clock(n_all_rows[i].time).kind = "return"

\* A tier whose fields all convert to numbers (an absent field counts as 0).
TierNumeric(cat) ==
    \A f \in {"MaxSeats", "SeatsAvail", "CurPrice"} : IntOf(Get(cat, f, Num(0))).kind = "return"

\* The shows of today's date in the bmsdaily7 payload with a tier that has a
\* non-numeric field.
MalformedShows ==
    {k \in 1..Len(ShowsOfData) :
        /\ ShowsOfData[k].ShowDateCode = DATE_CODE
        /\ \E c \in 1..Len(ShowsOfData[k].Categories) : ~TierNumeric(ShowsOfData[k].Categories[c])}

\* The shows of today's date that are well-formed and within the cutoff.
WellFormedShows ==
    {k \in 1..Len(ShowsOfData) :
        /\ ShowsOfData[k].ShowDateCode = DATE_CODE
        /\ k \notin MalformedShows
        /\ minutes_left(ShowsOfData[k].ShowTime) <= CUTOFF_MINUTES}

\* C15: when a show or tier of the venue's payload is malformed the venue's
\* fetch still counts as succeeded (the venue is not put in the retry queue)
\* and every other well-formed show of the payload is emitted.
C15_MalformedIsPerRecord ==
    (n_pc = "done" /\ n_src = "bms") =>
        /\ n_failed = <<>>
        /\ \A k \in WellFormedShows :
              \E i \in 1..Len(n_all_rows) :
                  n_all_rows[i].session_id = ShowsOfData[k].SessionId

\* What the code does instead: a tier with a non-numeric field fails the
\* whole venue, and none of its shows is emitted; without such a tier the
\* venue succeeds, an absent field counting as 0.
MalformedFailsVenue ==
    (n_pc = "done" /\ n_src = "bms") =>
        IF MalformedShows # {}
        THEN n_failed = <<"V1">> /\ n_all_rows = <<>>
        ELSE n_failed = <<>> /\ \A k \in WellFormedShows :
                                   \E i \in 1..Len(n_all_rows) :
                                       n_all_rows[i].session_id = ShowsOfData[k].SessionId

\* C18 as claimed: the distinct-city count of every movie of a summary is the
\* number of its City_details buckets.
CitiesEqualBuckets(final) ==
    \A k \in 1..Len(final.keys) :
        final.val[k].cities = Len(final.val[k].City_details)

C18_CitiesEqualBuckets ==
    /\ ("s9" \in a_pc) => CitiesEqualBuckets(a_sum9)
    /\ ("combine" \in a_pc) => CitiesEqualBuckets(a_sumc)

\* The distinct-city count of every movie is the number of distinct city
\* names among its City_details buckets, names taken by CityName.
CitiesCountNames(final, CityName(_)) ==
    \A k \in 1..Len(final.keys) :
        LET cd == final.val[k].City_details
            names == {CityName(cd[n].city) : n \in 1..Len(cd)}
        IN /\ final.val[k].cities = Cardinality(names)
           /\ final.val[k].cities <= Len(cd)
           /\ (Cardinality(names) = Len(cd)) => final.val[k].cities = Len(cd)

RawName(c) == c

FoldedName(c) == Lower(Strip(c))

\* C18 as amended: the distinct-city count of a movie is the number of
\* distinct city names among its City_details buckets (the names as given in
\* bmsdaily9, case-folded in the combiner); it is at most the number of
\* buckets and equals it when no two buckets have the same city name.
C18_CitiesCountNames ==
    /\ ("s9" \in a_pc) => CitiesCountNames(a_sum9, RawName)
    /\ ("combine" \in a_pc) => CitiesCountNames(a_sumc, FoldedName)

\* Both summaries built from two records of one city name in two states:
\* two buckets, one city.
C18_Witness ==
    /\ a_pc = {"s9", "combine"}
    /\ \E k \in 1..Len(a_sumc.keys) :
          a_sumc.val[k].cities = 1 /\ Len(a_sumc.val[k].City_details) = 2
    /\ \E k \in 1..Len(a_sum9.keys) :
          a_sum9.val[k].cities = 1 /\ Len(a_sum9.val[k].City_details) = 2

============================================================================
